---------------------------- MODULE Spec2Model ----------------------------
(***************************************************************************)
(* Lead collector (collector.py) and WhatsApp verification (server.py).    *)
(*                                                                         *)
(* A behaviour of Spec is one run of one entry point, chosen by `mode`:     *)
(*   "iter"    iter_numbers consumed by collect_numbers                    *)
(*   "info"    collect_numbers_info                                        *)
(*   "batch"   a caller threading init_state through collect_batch calls   *)
(*   "leads"   a GET /leads request, as server.py wires it to collector.py *)
(*   "handler" the body of leads after its collection step, entered with   *)
(*             a candidate list: verify_whatsapp, then the response        *)
(*   "stream"  a GET /leads/stream request, as server.py wires it          *)
(*   "page"    one _page_fast_and_fallback call, strategy by strategy      *)
(*   "pool"    the thread pool of one collect_batch call                   *)
(*   "browser" threads calling _ensure_browser                             *)
(***************************************************************************)
EXTENDS Integers, Sequences, FiniteSets

\* ------------------------------------------------------------------ bounds
MaxCities == 3
MaxLimite == 2
NumPhones == 2
MaxCand == 3
\* The chunk size read from the environment (UAZAPI_BATCH_SIZE); the session
\* is explored with a small one so that a short candidate list makes several chunks.
UAZAPI_BATCH_SIZE == 2
\* One page fetch: the largest limit, the most result cards, the longest list
\* of phone-like matches one text yields.
MaxPageLimit == 5
MaxCards == 5
MaxMatches == 2
\* The threads that call _ensure_browser.
MaxThreads == 3

\* ------------------------------------------------------- program constants
MAX_WORKERS == 4
MAX_PAGES_CAP == 30
MAX_CLICKS_PER_PAGE == 4
PAGE_STRIDE == 20
UAZAPI_MAX_CONCURRENCY == 3
UAZAPI_RETRIES == 2

Numbers == 1..NumPhones
CityIds == 1..MaxCities

VARIABLES
    mode,        \* which entry point drives the session: "iter", "info", "batch"
    local,       \* the city list parsed from the `local` argument
    limite,      \* the `limite` argument (the target n)
    pc,          \* "run" while the session loop is active, "done" once it returned
    cityPos,     \* index of `cidade` in the for loop of iter_numbers / collect_numbers_info
    rem,         \* `rem`, the limit handed to collect_batch
    state,       \* the threaded state: [cities, next_page]
    total,       \* `total` of iter_numbers
    out,         \* numbers yielded so far (iter) / `nums` (info)
    batchLen,    \* len(batch): how many numbers the last collect_batch call returned
    dropped,     \* history: how many numbers of the last batch the session did not take
    exhausted,   \* exhausted_all flag of the last collect_batch call
    exhausted_all, \* the accumulator `exhausted_all` of collect_numbers_info
    fetchLog,    \* history: per city, the start offsets handed to page fetches, in order
    lastJobs,    \* jobs of the last collect_batch call
    iters,       \* iterations of the job-building loop in the last call
    diverged,    \* the job-building loop of the last call did not end
    barren,      \* history: per city, every batch holding one of its pages came back empty
    \* ---- server.py
    candidates,  \* `candidates`: the list the handler got from its collection step
    exh_in,      \* `exhausted_all` as the handler got it from its collection step
    verify,      \* the `verify` query parameter
    configured,  \* UAZAPI_CHECK_URL and UAZAPI_INSTANCE_TOKEN are both set
    max_concurrency, \* UAZAPI_MAX_CONCURRENCY as read from the environment
    hpc,         \* where the request is: "call", "verify", "gather", "respond", "done"
    cphase,      \* per chunk task: "wait" (for the semaphore), "run", "throttle", "done"
    cattempt,    \* per chunk: `attempt` of _verify_batch
    cwa,         \* per chunk: `wa_plus` of _verify_batch, while _verify_batch runs
    cmeta,       \* per chunk: `meta` of _verify_batch, while _verify_batch runs
    wa_all,      \* `wa_all` of verify_whatsapp
    meta_all,    \* `meta_all` of verify_whatsapp
    evalCount,   \* history: per number, how often a chunk's first POST carried it
    posts,       \* history: per chunk, how many POSTs were made for it
    remoteOk,    \* history: the numbers confirmed by the responses that were parsed to the end
    status,      \* HTTP status of the response, 0 while there is none
    resp,        \* the JSON body of a 200 response
    \* ---- leads_stream
    events,      \* the events the stream has delivered, in order
    \* ---- _page_fast_and_fallback, and the pool that runs it
    pstage,      \* where the page fetch (or the pool) is
    pout,        \* `out`
    pseen,       \* `seen`
    prej,        \* history: a number was found again and left out
    ncards,      \* cards.count()
    pcard,       \* `i` of the loop over the cards that is running
    to_click,    \* `to_click`
    clicks,      \* history: how many cards were clicked
    ctx,         \* the browser context of the fetch: "none", "open", "closed"
    tphase,      \* per job of the pool: "queued", "session", "done"
    presults,    \* `results` of collect_batch while the pool runs
    found,       \* history: what the fetches that returned handed back, in completion order
    tfailed,     \* history: the jobs whose fetch timed out or raised
    \* ---- _ensure_browser
    BROWSER,     \* `_BROWSER`: 0 for None, else the number of the launch that made it
    INIT_LOCK,   \* `_INIT_LOCK`: the thread holding it, 0 when free
    epc,         \* per thread: where it is in _ensure_browser
    egot,        \* per thread: what its last call returned, 0 while there is none
    launches,    \* history: how many browsers were launched
    late         \* history: the threads that found the browser only under the lock

cvars == <<mode, local, limite, pc, cityPos, rem, state, total, out, batchLen, dropped,
           exhausted, exhausted_all, fetchLog, lastJobs, iters, diverged, barren>>

hvars == <<candidates, exh_in, verify, configured, max_concurrency, max_concurrency, hpc, cphase, cattempt,
           cwa, cmeta, wa_all, meta_all, evalCount, posts, remoteOk, status, resp>>

svars == <<events>>

jvars == <<presults, found, tfailed>>

bvars == <<BROWSER, INIT_LOCK, epc, egot, launches, late>>

fvars == <<pstage, pout, pseen, prej, ncards, pcard, to_click, clicks, ctx, tphase>>

pvars == <<fvars, jvars, bvars>>

vars == <<cvars, hvars, svars, pvars>>

\* ------------------------------------------------------------------ helpers
Range(s) == {s[i] : i \in 1..Len(s)}

Max(a, b) == IF a >= b THEN a ELSE b

Min(a, b) == IF a <= b THEN a ELSE b

Take(s, k) == SubSeq(s, 1, Min(k, Len(s)))

SeqsUpTo(S, k) == UNION {[1..m -> S] : m \in 0..k}

NoDup(s) == \A i, j \in 1..Len(s) : i # j => s[i] # s[j]

\* What one page fetch can hand back for a given limit: a list without
\* repetition of at most `limite` numbers. A fetch that times out returns the
\* empty list, and one that raises is dropped by collect_batch: both contribute
\* nothing to `results`.
PageOutcomes(lim) == {s \in SeqsUpTo(Numbers, Min(lim, NumPhones)) : NoDup(s)}

\* init_state / the per-city state of iter_numbers
init_state(cities) == [cities |-> cities, next_page |-> [c \in Range(cities) |-> 0]]

AtCap_late(p) == p > MAX_PAGES_CAP

\* next_page[c] >= MAX_PAGES_CAP
AtCap(p) == p >= MAX_PAGES_CAP

AllCapped_any(cities, np) == \E x \in Range(cities) : AtCap(np[x])

\* all(next_page[x] >= MAX_PAGES_CAP for x in cities)
AllCapped(cities, np) == \A x \in Range(cities) : AtCap(np[x])

SkipCapped_stuck(city_idx) == city_idx

\* city_idx += 1 on the branch that skips a city at the cap
SkipCapped(city_idx) == city_idx + 1

AdvanceCursor_stay(p) == p

\* next_page[c] += 1
AdvanceCursor(p) == p + 1

\* if len(results) > limit: results = results[:limit]
Cut(results, lim) == IF Len(results) > lim THEN SubSeq(results, 1, lim) ELSE results

\* Upper bound on the iterations explored of the job-building loop.
LoopFuel == (MAX_WORKERS + 1) * (MaxCities + 2)

\* The while loop of collect_batch that builds `jobs` round-robin.
RECURSIVE BuildJobs(_, _, _, _, _, _)
BuildJobs(cities, np0, np, jobs, city_idx, it) ==
    LET ret(j, n, d) == [jobs |-> j, next_page |-> n, iters |-> it, diverged |-> d]
    IN  IF it >= LoopFuel THEN ret(jobs, np, TRUE)
        ELSE IF ~(Len(jobs) < MAX_WORKERS) THEN ret(jobs, np, FALSE)
        ELSE LET c == cities[(city_idx % Len(cities)) + 1]
             IN  IF AtCap(np[c])
                 THEN IF AllCapped(cities, np)
                      THEN [jobs |-> jobs, next_page |-> np, iters |-> it + 1, diverged |-> FALSE]
                      ELSE BuildJobs(cities, np0, np, jobs, SkipCapped(city_idx), it + 1)
                 ELSE LET jobs2 == Append(jobs, <<c, np[c]>>)
                          np2 == [np EXCEPT ![c] = AdvanceCursor(@)]
                      IN  IF (\A x \in Range(cities) : np2[x] > np0[x])
                             /\ Len(jobs2) >= MAX_WORKERS
                          THEN [jobs |-> jobs2, next_page |-> np2, iters |-> it + 1,
                                diverged |-> FALSE]
                          ELSE BuildJobs(cities, np0, np2, jobs2, city_idx + 1, it + 1)

\* The as_completed loop followed by the truncation: every completed future
\* extends `results` with its page's list, in completion order, and the list is
\* cut to `limit` at the end. A prefix of length `limit` is not changed by later
\* extends, so the cut is applied after each extend.
RECURSIVE PossibleResults(_, _)
PossibleResults(njobs, lim) ==
    IF njobs = 0 THEN {<<>>}
    ELSE {Cut(r \o p, lim) : r \in PossibleResults(njobs - 1, lim), p \in PageOutcomes(lim)}

\* start = page_idx * 20
StartOffset(page_idx) == page_idx * PAGE_STRIDE

RECURSIVE LogJobs(_, _)
LogJobs(log, jobs) ==
    IF jobs = <<>> THEN log
    ELSE LET c == Head(jobs)[1]
         IN  LogJobs([log EXCEPT ![c] = Append(@, StartOffset(Head(jobs)[2]))], Tail(jobs))

\* collect_batch(nicho, state, limit): the possible (results, new_state, exhausted_all, ...)
collect_batch(st, lim) ==
    LET b == BuildJobs(st.cities, st.next_page, st.next_page, <<>>, 0, 0)
        new_state == [cities |-> st.cities, next_page |-> b.next_page]
    IN  IF b.jobs = <<>>
        THEN {[results |-> <<>>, state |-> new_state, exhausted |-> TRUE, b |-> b]}
        ELSE {[results |-> r, state |-> new_state,
               exhausted |-> AllCapped(st.cities, b.next_page), b |-> b]
                : r \in PossibleResults(Len(b.jobs), lim)}

\* ------------------------------------------------------------------ Init
\* `local` holds k distinct cities; the first city's state is set up as the
\* for loop of iter_numbers / collect_numbers_info does on entry.
CityState(cidade) == [cities |-> <<cidade>>, next_page |-> [c \in {cidade} |-> 0]]

\* The pool is explored on a call for one city whose cursor is at the start or
\* two pages short of the cap: MAX_WORKERS jobs, or two.
PoolStarts == {0, MAX_PAGES_CAP - 2}

\* The state a collect_batch call is given once `p` pages of the city were fetched.
PoolState(cidade, p) == [cities |-> <<cidade>>, next_page |-> [c \in {cidade} |-> p]]

\* The candidate lists a request is explored with: collect_numbers returns any
\* list, repetitions included. Two phone numbers are told apart only by being
\* equal or not, so the lists are over two numbers and start with the first.
CandidateLists == {s \in SeqsUpTo({1, 2}, MaxCand) : s = <<>> \/ s[1] = 1}

\* The settings of UAZAPI_MAX_CONCURRENCY a request is explored with: the
\* default, and 0, which the semaphore raises to one slot.
ConcurrencySettings == {0, UAZAPI_MAX_CONCURRENCY}

NoResponse ==
    [count |-> 0, items |-> <<>>, searched |-> 0, wa_count |-> 0, non_wa_count |-> 0,
     exhausted |-> FALSE]

NoMeta == [batches |-> 0, sent |-> 0, ok |-> 0, fail |-> 0]

\* A request has not been made: the session is a direct call of the collector.
InitNoRequest ==
    /\ candidates = <<>>
    /\ exh_in = FALSE
    /\ verify = 0
    /\ configured = TRUE
    /\ max_concurrency = UAZAPI_MAX_CONCURRENCY
    /\ hpc = "done"
    /\ cphase = <<>>
    /\ cattempt = <<>>
    /\ cwa = <<>>
    /\ cmeta = <<>>
    /\ wa_all = {}
    /\ meta_all = NoMeta
    /\ evalCount = [x \in Numbers |-> 0]
    /\ posts = <<>>
    /\ remoteOk = {}
    /\ status = 0
    /\ resp = NoResponse

InitRequest ==
    /\ verify \in {0, 1}
    /\ \/ /\ mode \in {"leads", "stream"}
          /\ hpc = IF mode = "leads" THEN "call" ELSE "start"
          /\ candidates = <<>>
          /\ exh_in = FALSE
          /\ configured = TRUE
          /\ max_concurrency = UAZAPI_MAX_CONCURRENCY
       \/ /\ mode = "handler"
          /\ hpc = "verify"
          /\ candidates \in CandidateLists
          /\ exh_in \in BOOLEAN
          /\ configured \in BOOLEAN
          /\ max_concurrency \in ConcurrencySettings
    /\ cphase = <<>>
    /\ cattempt = <<>>
    /\ cwa = <<>>
    /\ cmeta = <<>>
    /\ wa_all = {}
    /\ meta_all = NoMeta
    /\ evalCount = [x \in Numbers |-> 0]
    /\ posts = <<>>
    /\ remoteOk = {}
    /\ status = 0
    /\ resp = NoResponse

Init ==
    /\ mode \in {"iter", "info", "batch", "leads", "handler", "stream", "page", "pool",
                "browser"}
    /\ IF mode \in {"iter", "info", "batch"}
       THEN /\ InitNoRequest
            /\ \E k \in 1..MaxCities : local = [i \in 1..k |-> i]
            /\ pc = "run"
       ELSE IF mode \in {"page", "pool", "browser"}
       THEN /\ InitNoRequest
            /\ local = <<1>>
            /\ pc = "idle"
       ELSE /\ InitRequest
            /\ local = <<1>>
            /\ pc = "idle"
    /\ limite \in 1..(IF mode = "page" THEN MaxPageLimit
                      ELSE IF mode = "browser" THEN 1 ELSE MaxLimite)
    /\ cityPos = IF mode = "batch" THEN Len(local) ELSE 1
    /\ rem = Max(1, limite)
    /\ state \in IF mode = "batch" THEN {init_state(local)}
                ELSE IF mode = "pool" THEN {PoolState(local[1], p) : p \in PoolStarts}
                ELSE {CityState(local[1])}
    /\ total = 0
    /\ out = <<>>
    /\ batchLen = 0
    /\ dropped = 0
    /\ exhausted = FALSE
    /\ exhausted_all = FALSE
    /\ fetchLog = [c \in CityIds |-> IF c \in DOMAIN state.next_page
                                      THEN [i \in 1..state.next_page[c] |-> StartOffset(i - 1)]
                                      ELSE <<>>]
    /\ lastJobs = <<>>
    /\ iters = 0
    /\ diverged = FALSE
    /\ barren = [c \in CityIds |-> TRUE]
    /\ events = <<>>
    /\ pstage = IF mode = "page" THEN "goto" ELSE IF mode = "pool" THEN "submit" ELSE "idle"
    /\ pout = <<>>
    /\ pseen = {}
    /\ prej = FALSE
    /\ ncards = 0
    /\ pcard = 0
    /\ to_click = 0
    /\ clicks = 0
    /\ ctx = "none"
    /\ tphase = <<>>
    /\ presults = <<>>
    /\ found = <<>>
    /\ tfailed = {}
    /\ BROWSER = 0
    /\ INIT_LOCK = 0
    /\ epc \in IF mode = "browser" THEN {[t \in 1..k |-> "check"] : k \in 1..MaxThreads}
               ELSE {<<>>}
    /\ egot = [t \in DOMAIN epc |-> 0]
    /\ launches = 0
    /\ late = {}

\* ------------------------------------------------------------------ actions
\* What every collect_batch call leaves behind, whoever calls it.
Called(r) ==
    /\ batchLen' = Len(r.results)
    /\ exhausted' = r.exhausted
    /\ fetchLog' = LogJobs(fetchLog, r.b.jobs)
    /\ lastJobs' = r.b.jobs
    /\ iters' = r.b.iters
    /\ diverged' = r.b.diverged
    /\ barren' = [c \in CityIds |->
                    IF \E i \in 1..Len(r.b.jobs) : r.b.jobs[i][1] = c
                    THEN barren[c] /\ r.results = <<>>
                    ELSE barren[c]]

\* The for loop moves to the next cidade, or the function returns.
NextCity(st, have) ==
    IF cityPos < Len(local)
    THEN /\ cityPos' = cityPos + 1
         /\ rem' = Max(1, limite - have)
         /\ state' = CityState(local[cityPos + 1])
         /\ pc' = "run"
    ELSE /\ cityPos' = cityPos
         /\ rem' = rem
         /\ state' = st
         /\ pc' = "done"

Yielded_all(b, lim, tot) == b

\* for tel in batch: yield tel; total += 1; if total >= limite: return
Yielded(b, lim, tot) == Take(b, lim - tot)

\* One turn of the while loop of iter_numbers, consumed by collect_numbers:
\* a collect_batch call, then the yield loop over its batch.
IterBatch ==
    /\ mode = "iter"
    /\ pc = "run"
    /\ total < limite
    /\ \E r \in collect_batch(state, rem) :
         LET y == Yielded(r.results, limite, total)
             total2 == total + Len(y)
         IN  /\ Called(r)
             /\ out' = out \o y
             /\ dropped' = Len(r.results) - Len(y)
             /\ total' = total2
             /\ exhausted_all' = exhausted_all
             /\ IF total2 >= limite
                THEN /\ pc' = "done"
                     /\ state' = r.state
                     /\ UNCHANGED <<cityPos, rem>>
                ELSE IF r.exhausted
                THEN NextCity(r.state, total2)
                ELSE /\ pc' = "run"
                     /\ state' = r.state
                     /\ UNCHANGED <<cityPos, rem>>
    /\ UNCHANGED <<mode, local, limite>>
    /\ UNCHANGED hvars
    /\ UNCHANGED svars
    /\ UNCHANGED pvars

\* for t in batch: if t not in nums: nums.append(t)
RECURSIVE AppendNew(_, _)
AppendNew(nums, b) ==
    IF b = <<>> THEN nums
    ELSE AppendNew(IF Head(b) \in Range(nums) THEN nums ELSE Append(nums, Head(b)), Tail(b))

\* return nums[:limite], ...
info_return(nums, lim) == SubSeq(nums, 1, Min(lim, Len(nums)))

\* One turn of the while loop of collect_numbers_info.
InfoBatch ==
    /\ mode = "info"
    /\ pc = "run"
    /\ Len(out) < limite
    /\ \E r \in collect_batch(state, rem) :
         LET nums2 == AppendNew(out, r.results)
         IN  /\ Called(r)
             /\ out' = nums2
             /\ dropped' = Len(r.results) - (Len(nums2) - Len(out))
             /\ total' = total
             /\ IF Len(nums2) >= limite
                THEN /\ exhausted_all' = (exhausted_all \/ r.exhausted)
                     /\ pc' = "done"
                     /\ state' = r.state
                     /\ UNCHANGED <<cityPos, rem>>
                ELSE IF r.exhausted
                THEN /\ exhausted_all' = TRUE
                     /\ NextCity(r.state, Len(nums2))
                ELSE /\ exhausted_all' = exhausted_all
                     /\ pc' = "run"
                     /\ state' = r.state
                     /\ UNCHANGED <<cityPos, rem>>
    /\ UNCHANGED <<mode, local, limite>>
    /\ UNCHANGED hvars
    /\ UNCHANGED svars
    /\ UNCHANGED pvars

\* A caller that keeps the state of init_state and hands the returned state to
\* the next collect_batch call, until a call finds no page left to fetch.
ThreadBatch ==
    /\ mode = "batch"
    /\ pc = "run"
    /\ \E lim \in 1..MaxLimite : \E r \in collect_batch(state, lim) :
         /\ Called(r)
         /\ state' = r.state
         /\ pc' = IF r.b.jobs = <<>> THEN "done" ELSE "run"
    /\ UNCHANGED <<mode, local, limite, cityPos, rem, total, out, dropped, exhausted_all>>
    /\ UNCHANGED hvars
    /\ UNCHANGED svars
    /\ UNCHANGED pvars

\* ------------------------------------------------------------------ server.py
\* An E.164 number "+<digits>" is one of Numbers; its digit string is the pair
\* <<"digits", x>>.
\* _digits(s): re.sub(r"\D", "", s)
digits(x) == IF x \in Numbers THEN <<"digits", x>> ELSE x

\* "+" + qd
plus(d) == d[2]

\* _split_chunks(seq, size)
split_chunks(seq, size) ==
    [j \in 1..((Len(seq) + size - 1) \div size) |->
        SubSeq(seq, (j - 1) * size + 1, Min(j * size, Len(seq)))]

\* digits_list of verify_whatsapp
digits_list(nums) == [i \in 1..Len(nums) |-> digits(nums[i])]

\* e164_by_digits of verify_whatsapp: the last number of the list with these digits
e164_by_digits(nums) ==
    [d \in {digits(nums[i]) : i \in 1..Len(nums)} |->
        LET last == CHOOSE i \in 1..Len(nums) :
                        /\ digits(nums[i]) = d
                        /\ \A k \in 1..Len(nums) : digits(nums[k]) = d => k <= i
        IN  nums[last]]

Chunks == split_chunks(digits_list(candidates), UAZAPI_BATCH_SIZE)

ChunkIds == 1..Len(Chunks)

\* meta = {"sent": len(digits), "ok": 0, "fail": 0}
NoChunkMeta(j) == [sent |-> Len(Chunks[j]), ok |-> 0, fail |-> 0]

\* The entry of verify_whatsapp: the early return, or one task per chunk.
VerifyStart ==
    /\ mode = "handler"
    /\ hpc = "verify"
    /\ verify = 1
    /\ IF candidates = <<>> \/ ~configured
       THEN /\ hpc' = "respond"
            /\ UNCHANGED <<cphase, cattempt, cwa, cmeta, meta_all, posts>>
       ELSE /\ hpc' = "gather"
            /\ meta_all' = [batches |-> Len(Chunks), sent |-> Len(digits_list(candidates)),
                            ok |-> 0, fail |-> 0]
            /\ cphase' = [j \in ChunkIds |-> "wait"]
            /\ cattempt' = [j \in ChunkIds |-> 0]
            /\ posts' = [j \in ChunkIds |-> 0]
            /\ cwa' = [j \in ChunkIds |-> {}]
            /\ cmeta' = [j \in ChunkIds |-> NoChunkMeta(j)]
    /\ UNCHANGED <<candidates, exh_in, verify, configured, max_concurrency, wa_all, evalCount,
                   remoteOk, status, resp>>
    /\ UNCHANGED cvars
    /\ UNCHANGED svars
    /\ UNCHANGED pvars

\* asyncio.Semaphore(max(1, UAZAPI_MAX_CONCURRENCY))
SemSlots == Max(1, max_concurrency)

Holding == {j \in ChunkIds : cphase[j] \in {"run", "throttle"}}

SlotFree_always(held, slots) == TRUE

\* the semaphore lets a waiter in while its counter is positive
SlotFree(held, slots) == held < slots

\* A task that can take the semaphore does so before any task that is suspended
\* on the network or on a sleep is resumed: a new task runs up to its first
\* suspension, and a waiter woken by a release is already scheduled.
AcquireReady ==
    \E j \in ChunkIds :
        cphase[j] = "wait" /\ SlotFree(Cardinality(Holding), SemSlots)

\* async with sem: tasks were created in chunk order and the semaphore wakes
\* its waiters first come, first served.
Acquire(j) ==
    /\ hpc = "gather"
    /\ cphase[j] = "wait"
    /\ SlotFree(Cardinality(Holding), SemSlots)
    /\ \A i \in ChunkIds : i < j => cphase[i] # "wait"
    /\ cphase' = [cphase EXCEPT ![j] = "run"]
    /\ UNCHANGED <<candidates, exh_in, verify, configured, max_concurrency, hpc, cattempt, cwa, cmeta,
                   wa_all, meta_all, evalCount, posts, remoteOk, status, resp>>
    /\ UNCHANGED cvars
    /\ UNCHANGED svars
    /\ UNCHANGED pvars

\* What one POST of chunk j can come to. The remote answers about the numbers
\* it was asked about: `wa` are the digits of the rows it marks as on WhatsApp.
\*   "ok"    the body is read and every row is parsed
\*   "raise" the POST times out, the status is not 2xx, or the body is not JSON
\*   "rows"  the body is read, the rows `wa` are parsed, then a malformed row raises
Outcomes(j) ==
    {[kind |-> "raise", wa |-> {}]}
        \cup {[kind |-> k, wa |-> W] : k \in {"ok", "rows"}, W \in SUBSET Range(Chunks[j])}

\* The merge of the worker after _verify_batch returned (wa_set, meta).
Merged(wa_set) ==
    wa_all \cup {e164_by_digits(candidates)[digits(w)] :
                    w \in {v \in wa_set : digits(v) \in DOMAIN e164_by_digits(candidates)}}

MoreAttempts_extra(attempt) == attempt <= UAZAPI_RETRIES + 1

\* while attempt <= UAZAPI_RETRIES
MoreAttempts(attempt) == attempt <= UAZAPI_RETRIES

\* One turn of the retry loop of _verify_batch for chunk j: the POST and what
\* follows it up to the next POST or, when _verify_batch returns, up to the
\* worker's merge into wa_all and meta_all.
Attempt(j) ==
    /\ hpc = "gather"
    /\ cphase[j] = "run"
    /\ ~AcquireReady
    /\ \E o \in Outcomes(j) :
         LET read == o.kind \in {"ok", "rows"}
             failed == o.kind \in {"raise", "rows"}
             wa2 == cwa[j] \cup {plus(d) : d \in o.wa}
             meta2 == [cmeta[j] EXCEPT !.ok = @ + (IF read THEN 1 ELSE 0),
                                       !.fail = @ + (IF failed THEN 1 ELSE 0)]
             attempt2 == IF failed THEN cattempt[j] + 1 ELSE cattempt[j]
             returns == ~failed \/ ~MoreAttempts(attempt2)
         IN  /\ cattempt' = [cattempt EXCEPT ![j] = attempt2]
             /\ posts' = [posts EXCEPT ![j] = @ + 1]
             /\ remoteOk' = IF failed THEN remoteOk ELSE remoteOk \cup {plus(d) : d \in o.wa}
             /\ IF returns
                THEN /\ wa_all' = Merged(wa2)
                     /\ meta_all' = [meta_all EXCEPT !.ok = @ + meta2.ok,
                                                     !.fail = @ + meta2.fail]
                     /\ cphase' = [cphase EXCEPT ![j] = "throttle"]
                     /\ cwa' = [cwa EXCEPT ![j] = {}]
                     /\ cmeta' = [cmeta EXCEPT ![j] = NoChunkMeta(j)]
                ELSE /\ cwa' = [cwa EXCEPT ![j] = wa2]
                     /\ cmeta' = [cmeta EXCEPT ![j] = meta2]
                     /\ UNCHANGED <<wa_all, meta_all, cphase>>
    /\ evalCount' = IF cattempt[j] = 0
                    THEN [x \in Numbers |->
                            evalCount[x]
                              + Cardinality({i \in 1..Len(Chunks[j]) : Chunks[j][i] = digits(x)})]
                    ELSE evalCount
    /\ UNCHANGED <<candidates, exh_in, verify, configured, max_concurrency, hpc, status, resp>>
    /\ UNCHANGED cvars
    /\ UNCHANGED svars
    /\ UNCHANGED pvars

\* await asyncio.sleep(UAZAPI_THROTTLE_MS / 1000.0), then the semaphore is released
Release(j) ==
    /\ hpc = "gather"
    /\ cphase[j] = "throttle"
    /\ ~AcquireReady
    /\ cphase' = [cphase EXCEPT ![j] = "done"]
    /\ UNCHANGED <<candidates, exh_in, verify, configured, max_concurrency, hpc, cattempt, cwa, cmeta,
                   wa_all, meta_all, evalCount, posts, remoteOk, status, resp>>
    /\ UNCHANGED cvars
    /\ UNCHANGED svars
    /\ UNCHANGED pvars

\* asyncio.gather returns once every task is done; verify_whatsapp returns
\* (wa_all, meta_all).
VerifyReturn ==
    /\ hpc = "gather"
    /\ \A j \in ChunkIds : cphase[j] = "done"
    /\ hpc' = "respond"
    /\ UNCHANGED <<candidates, exh_in, verify, configured, max_concurrency, cphase, cattempt, cwa, cmeta,
                   wa_all, meta_all, evalCount, posts, remoteOk, status, resp>>
    /\ UNCHANGED cvars
    /\ UNCHANGED svars
    /\ UNCHANGED pvars

\* [p for p in candidates if p in wa_set]
RECURSIVE Filter(_, _)
Filter(seq, S) ==
    IF seq = <<>> THEN <<>>
    ELSE (IF Head(seq) \in S THEN <<Head(seq)>> ELSE <<>>) \o Filter(Tail(seq), S)

\* the [:n] of wa_list and of items
FirstN(seq, n) == SubSeq(seq, 1, Min(n, Len(seq)))

\* The response of leads with verify == 1.
LeadsRespond ==
    /\ mode = "handler"
    /\ hpc = "respond"
    /\ LET searched == Len(candidates)
           wa_list == FirstN(Filter(candidates, wa_all), limite)
           wa_count == Len(wa_list)
       IN  resp' = [count |-> wa_count, items |-> wa_list, searched |-> searched,
                    wa_count |-> wa_count, non_wa_count |-> searched - wa_count,
                    exhausted |-> (exh_in /\ wa_count < limite)]
    /\ status' = 200
    /\ hpc' = "done"
    /\ UNCHANGED <<candidates, exh_in, verify, configured, max_concurrency, cphase, cattempt, cwa, cmeta,
                   wa_all, meta_all, evalCount, posts, remoteOk>>
    /\ UNCHANGED cvars
    /\ UNCHANGED svars
    /\ UNCHANGED pvars

\* The response of leads with verify == 0.
LeadsPlain ==
    /\ mode = "handler"
    /\ hpc = "verify"
    /\ verify = 0
    /\ LET searched == Len(candidates)
           items == FirstN(candidates, limite)
       IN  resp' = [count |-> Len(items), items |-> items, searched |-> searched,
                    wa_count |-> 0, non_wa_count |-> searched,
                    exhausted |-> (exh_in /\ Len(items) < limite)]
    /\ status' = 200
    /\ hpc' = "done"
    /\ UNCHANGED <<candidates, exh_in, verify, configured, max_concurrency, cphase, cattempt, cwa, cmeta,
                   wa_all, meta_all, evalCount, posts, remoteOk>>
    /\ UNCHANGED cvars
    /\ UNCHANGED svars
    /\ UNCHANGED pvars

\* def collect_numbers(nicho, local, limite=50)
collect_numbers_params == {"nicho", "local", "limite"}

\* collect_numbers(nicho, local, n, overscan_mult=OVERSCAN_MULT)
leads_call_keywords == {"overscan_mult"}

\* Python binds the call only if every keyword names a parameter.
CallBinds == leads_call_keywords \subseteq collect_numbers_params

\* The collection step of leads: the call of collect_numbers raises TypeError
\* before the collector runs, and the handler answers HTTP 500.
LeadsCall ==
    /\ mode = "leads"
    /\ hpc = "call"
    /\ ~CallBinds
    /\ status' = 500
    /\ hpc' = "done"
    /\ UNCHANGED <<candidates, exh_in, verify, configured, max_concurrency, cphase, cattempt, cwa, cmeta,
                   wa_all, meta_all, evalCount, posts, remoteOk, resp>>
    /\ UNCHANGED cvars
    /\ UNCHANGED svars
    /\ UNCHANGED pvars

\* _sse: f"event: {event}\n" + f"data: ...\n\n".encode("utf-8")
sse_left == "str"

sse_right == "bytes"

\* Python concatenates with + only operands of one type; str + bytes raises TypeError.
SseBuilds == sse_left = sse_right

\* The first step of gen(): yield _sse("start", {}). The response has started
\* (status 200) when the body iterator is first advanced; _sse raises inside
\* gen(), outside any try, and the stream breaks off with no event delivered.
StreamStart ==
    /\ mode = "stream"
    /\ hpc = "start"
    /\ ~SseBuilds
    /\ status' = 200
    /\ events' = events
    /\ hpc' = "aborted"
    /\ UNCHANGED <<candidates, exh_in, verify, configured, max_concurrency, cphase, cattempt, cwa, cmeta,
                   wa_all, meta_all, evalCount, posts, remoteOk, resp>>
    /\ UNCHANGED cvars
    /\ UNCHANGED pvars

\* --------------------------------------------------- _page_fast_and_fallback
\* What norm_br_e164 makes of one phone-like match: a number, or 0 for None.
Tels == 0..NumPhones

\* PHONE_RE.findall(text), each match normalised
MatchLists == SeqsUpTo(Tels, MaxMatches)

\* Reading a text of the page (page.content(), inner_text) raises, or gives matches.
TextOutcomes ==
    {[raise |-> TRUE, m |-> <<>>]} \cup {[raise |-> FALSE, m |-> x] : x \in MatchLists}

\* try: ... except Exception: pass
Read(t) == IF t.raise THEN <<>> ELSE t.m

Unseen_any(tel, seen) == TRUE

\* tel not in seen
Unseen(tel, seen) == tel \notin seen

AtLimit_late(o, lim) == Len(o) > lim

\* len(out) >= limite
AtLimit(o, lim) == Len(o) >= lim

Acc(o, sn, r) == [out |-> o, seen |-> sn, rej |-> r]

\* if tel and tel not in seen: seen.add(tel); out.append(tel)
Add(acc, tel) ==
    IF tel = 0 THEN acc
    ELSE IF Unseen(tel, acc.seen)
         THEN Acc(Append(acc.out, tel), acc.seen \cup {tel}, acc.rej)
         ELSE Acc(acc.out, acc.seen, TRUE)

\* for m in PHONE_RE.findall(...): add; if len(out) >= limite: break
RECURSIVE Scan(_, _, _)
Scan(acc, matches, lim) ==
    IF matches = <<>> THEN acc
    ELSE LET a2 == Add(acc, Head(matches))
         IN  IF Len(a2.out) > Len(acc.out) /\ AtLimit(a2.out, lim)
             THEN a2
             ELSE Scan(a2, Tail(matches), lim)

\* the scan of one card's text: add; break after the first number added
RECURSIVE ScanFirst(_, _)
ScanFirst(acc, matches) ==
    IF matches = <<>> THEN acc
    ELSE LET a2 == Add(acc, Head(matches))
         IN  IF Len(a2.out) > Len(acc.out) THEN a2 ELSE ScanFirst(a2, Tail(matches))

Current == Acc(pout, pseen, prej)

Set(a) ==
    /\ pout' = a.out
    /\ pseen' = a.seen
    /\ prej' = a.rej

\* ctx.close(); return out
Return ==
    /\ pstage' = "returned"
    /\ ctx' = "closed"

\* An exception that no try of the function catches leaves it with the context open.
Raise ==
    /\ pstage' = "raised"
    /\ ctx' = ctx

\* browser.new_context(...), page.goto(...): PWTimeoutError closes the context
\* and returns the empty list; any other error leaves the function.
PageGoto ==
    /\ mode = "page"
    /\ pstage = "goto"
    /\ \E o \in {"ok", "timeout", "error"} :
         /\ pstage' = CASE o = "ok" -> "html" [] o = "timeout" -> "returned" [] OTHER -> "raised"
         /\ ctx' = IF o = "timeout" THEN "closed" ELSE "open"
    /\ UNCHANGED <<pout, pseen, prej, ncards, pcard, to_click, clicks, tphase>>
    /\ UNCHANGED <<cvars, hvars, svars, jvars, bvars>>

\* (0) regex over page.content()
HtmlScan ==
    /\ pstage = "html"
    /\ \E t \in TextOutcomes :
         LET a == Scan(Current, Read(t), limite)
         IN  /\ Set(a)
             /\ IF AtLimit(a.out, limite)
                THEN Return
                ELSE pstage' = "wait" /\ ctx' = ctx
    /\ UNCHANGED <<ncards, pcard, to_click, clicks, tphase>>
    /\ UNCHANGED <<cvars, hvars, svars, jvars, bvars>>

\* The wait for the Local Finder. On PWTimeoutError: (1b) regex over the body
\* text, then return. Otherwise the cards are located.
WaitFinder ==
    /\ pstage = "wait"
    /\ \/ \E t \in TextOutcomes :
            /\ Set(Scan(Current, Read(t), limite))
            /\ Return
            /\ UNCHANGED <<ncards, pcard>>
       \/ /\ Raise
          /\ UNCHANGED <<pout, pseen, prej, ncards, pcard>>
       \/ \E k \in 0..MaxCards :
            /\ ncards' = k
            /\ pcard' = 0
            /\ pstage' = "cards"
            /\ UNCHANGED <<pout, pseen, prej, ctx>>
    /\ UNCHANGED <<to_click, clicks, tphase>>
    /\ UNCHANGED <<cvars, hvars, svars, jvars, bvars>>

\* (1) one card of the pass without clicks. link: the number of the card's tel:
\* link, 0 when it does not normalise, -1 when the card has no such link. A
\* number taken from the link ends the card; otherwise the card's text is
\* scanned up to the first number added. An exception ends the card.
CardStep ==
    /\ pstage = "cards"
    /\ pcard < ncards
    /\ ~AtLimit(pout, limite)
    /\ \E link \in -1..NumPhones, t \in TextOutcomes :
         LET viaLink == Add(Current, Max(link, 0))
         IN  Set(IF Len(viaLink.out) > Len(pout)
                 THEN viaLink
                 ELSE ScanFirst(viaLink, Read(t)))
    /\ pcard' = pcard + 1
    /\ UNCHANGED <<pstage, ncards, to_click, clicks, ctx, tphase>>
    /\ UNCHANGED <<cvars, hvars, svars, jvars, bvars>>

\* The loop over the cards ends: every card was visited, or the test at the top
\* of the loop finds the limit reached. Then: if len(out) >= limite: return.
CardsDone ==
    /\ pstage = "cards"
    /\ pcard = ncards \/ AtLimit(pout, limite)
    /\ IF AtLimit(pout, limite)
       THEN Return
       ELSE pstage' = "feed" /\ ctx' = ctx
    /\ UNCHANGED <<pout, pseen, prej, ncards, pcard, to_click, clicks, tphase>>
    /\ UNCHANGED <<cvars, hvars, svars, jvars, bvars>>

\* (2) regex over the text of the feed, if there is one; feed.count() is
\* outside any try.
FeedScan ==
    /\ pstage = "feed"
    /\ \/ /\ Raise
          /\ UNCHANGED <<pout, pseen, prej>>
       \/ /\ pstage' = "body"
          /\ UNCHANGED <<pout, pseen, prej, ctx>>
       \/ \E t \in TextOutcomes :
            LET a == Scan(Current, Read(t), limite)
            IN  /\ Set(a)
                /\ IF AtLimit(a.out, limite)
                   THEN Return
                   ELSE pstage' = "body" /\ ctx' = ctx
    /\ UNCHANGED <<ncards, pcard, to_click, clicks, tphase>>
    /\ UNCHANGED <<cvars, hvars, svars, jvars, bvars>>

ToClick_all(click_limit, count, lim, o) == Min(count, Max(0, lim - Len(o)))

\* to_click = min(click_limit, cards.count(), max(0, limite - len(out)))
ToClick(click_limit, count, lim, o) ==
    Min(click_limit, Min(count, Max(0, lim - Len(o))))

\* (3) regex over the body text; then, short of the limit, to_click is computed
\* (cards.count() is outside any try).
BodyScan ==
    /\ pstage = "body"
    /\ \E t \in TextOutcomes :
         LET a == Scan(Current, Read(t), limite)
         IN  /\ Set(a)
             /\ IF AtLimit(a.out, limite)
                THEN Return /\ UNCHANGED <<to_click, pcard>>
                ELSE \/ Raise /\ UNCHANGED <<to_click, pcard>>
                     \/ /\ to_click' = ToClick(MAX_CLICKS_PER_PAGE, ncards, limite, a.out)
                        /\ pcard' = 0
                        /\ pstage' = "click"
                        /\ ctx' = ctx
    /\ UNCHANGED <<ncards, clicks, tphase>>
    /\ UNCHANGED <<cvars, hvars, svars, jvars, bvars>>

\* (4) one click: PWTimeoutError moves on to the next card, any other error of
\* the click leaves the function; otherwise the number found in the panel, if
\* any (tel = 0: none), is added.
ClickStep ==
    /\ pstage = "click"
    /\ pcard < to_click
    /\ ~AtLimit(pout, limite)
    /\ clicks' = clicks + 1
    /\ \/ /\ pcard' = pcard + 1
          /\ UNCHANGED <<pout, pseen, prej, pstage, ctx>>
       \/ /\ Raise
          /\ UNCHANGED <<pout, pseen, prej, pcard>>
       \/ \E tel \in Tels :
            /\ Set(Add(Current, tel))
            /\ pcard' = pcard + 1
            /\ UNCHANGED <<pstage, ctx>>
    /\ UNCHANGED <<ncards, to_click, tphase>>
    /\ UNCHANGED <<cvars, hvars, svars, jvars, bvars>>

\* The click loop ends; ctx.close(); return out.
ClickDone ==
    /\ pstage = "click"
    /\ pcard = to_click \/ AtLimit(pout, limite)
    /\ Return
    /\ UNCHANGED <<pout, pseen, prej, ncards, pcard, to_click, clicks, tphase>>
    /\ UNCHANGED <<cvars, hvars, svars, jvars, bvars>>

\* ------------------------------------------------- the pool of collect_batch
\* The jobs of the call: the while loop, run on the state the call was given.
PoolJobs == BuildJobs(state.cities, state.next_page, state.next_page, <<>>, 0, 0)

\* How the fetch of a job can end: it returns its list, it returns the empty
\* list after a navigation timeout, or it raises.
FetchEnds ==
    {[kind |-> "list", arr |-> r] : r \in PageOutcomes(limite)}
        \cup {[kind |-> "timeout", arr |-> <<>>], [kind |-> "raise", arr |-> <<>>]}

\* results.extend(arr)
Extended(results, arr) == results \o arr

Absorbed_lost(results) == <<>>

\* except Exception: pass
Absorbed(results) == results

\* with ThreadPoolExecutor(max_workers=len(jobs)): one thread per job, between
\* 1 and MAX_WORKERS jobs; every job is submitted before any result is awaited.
PoolSubmit ==
    /\ mode = "pool"
    /\ pstage = "submit"
    /\ PoolJobs.jobs # <<>>
    /\ tphase' = [i \in 1..Len(PoolJobs.jobs) |-> "queued"]
    /\ lastJobs' = PoolJobs.jobs
    /\ pstage' = "pool"
    /\ UNCHANGED <<pout, pseen, prej, ncards, pcard, to_click, clicks, ctx, jvars>>
    /\ UNCHANGED <<mode, local, limite, pc, cityPos, rem, state, total, out, batchLen,
                   dropped, exhausted, exhausted_all, fetchLog, iters, diverged, barren>>
    /\ UNCHANGED <<hvars, svars, bvars>>

\* A thread starts its job: browser = _ensure_browser() is the one browser of
\* the process, and browser.new_context() opens the job's session on it.
ThreadOpen(t) ==
    /\ pstage = "pool"
    /\ tphase[t] = "queued"
    /\ tphase' = [tphase EXCEPT ![t] = "session"]
    /\ UNCHANGED <<pstage, pout, pseen, prej, ncards, pcard, to_click, clicks, ctx, jvars>>
    /\ UNCHANGED <<cvars, hvars, svars, bvars>>

\* The job of a thread ends, _page_fast_and_fallback returned or raised, and
\* the as_completed loop takes its future: fut.result() hands back the list,
\* which extends `results`, or raises what the fetch raised, which is passed
\* over. The list is cut to `limit` after each extend, as in PossibleResults.
ThreadEnd(t) ==
    /\ pstage = "pool"
    /\ tphase[t] = "session"
    /\ tphase' = [tphase EXCEPT ![t] = "done"]
    /\ \E e \in FetchEnds :
          /\ presults' = IF e.kind = "raise" THEN Absorbed(presults)
                         ELSE Cut(Extended(presults, e.arr), limite)
          /\ found' = IF e.kind = "list" THEN Cut(found \o e.arr, limite) ELSE found
          /\ tfailed' = IF e.kind = "list" THEN tfailed ELSE tfailed \cup {t}
    /\ UNCHANGED <<pstage, pout, pseen, prej, ncards, pcard, to_click, clicks, ctx>>
    /\ UNCHANGED <<cvars, hvars, svars, bvars>>

\* The with block of the executor ends once every future is done, and the call
\* returns (results, new_state, exhausted_all).
PoolJoin ==
    /\ pstage = "pool"
    /\ \A t \in DOMAIN tphase : tphase[t] = "done"
    /\ LET b == PoolJobs
           r == [results |-> Cut(presults, limite),
                 state |-> [cities |-> state.cities, next_page |-> b.next_page],
                 exhausted |-> AllCapped(state.cities, b.next_page), b |-> b]
       IN  /\ Called(r)
           /\ state' = r.state
    /\ pstage' = "joined"
    /\ UNCHANGED <<pout, pseen, prej, ncards, pcard, to_click, clicks, ctx, tphase, jvars>>
    /\ UNCHANGED <<mode, local, limite, pc, cityPos, rem, total, out, dropped, exhausted_all>>
    /\ UNCHANGED <<hvars, svars, bvars>>

\* ------------------------------------------------------------ _ensure_browser
\* if _BROWSER: outside the lock
HasBrowser(b) == b # 0

HasBrowserLocked_skip(b) == FALSE

\* if _BROWSER: inside `with _INIT_LOCK`
HasBrowserLocked(b) == b # 0

\* A thread calls _ensure_browser (again).
EnsureCall(t) ==
    /\ mode = "browser"
    /\ epc[t] \in {"done", "failed"}
    /\ epc' = [epc EXCEPT ![t] = "check"]
    /\ egot' = [egot EXCEPT ![t] = 0]
    /\ UNCHANGED <<BROWSER, INIT_LOCK, launches, late>>
    /\ UNCHANGED <<cvars, hvars, svars, fvars, jvars>>

\* if _BROWSER: return _BROWSER, read without the lock.
EnsureCheck(t) ==
    /\ mode = "browser"
    /\ epc[t] = "check"
    /\ epc' = [epc EXCEPT ![t] = IF HasBrowser(BROWSER) THEN "return" ELSE "lock"]
    /\ UNCHANGED <<BROWSER, INIT_LOCK, egot, launches, late>>
    /\ UNCHANGED <<cvars, hvars, svars, fvars, jvars>>

\* with _INIT_LOCK: the thread blocks until the lock is free and takes it.
EnsureLock(t) ==
    /\ mode = "browser"
    /\ epc[t] = "lock"
    /\ INIT_LOCK = 0
    /\ INIT_LOCK' = t
    /\ epc' = [epc EXCEPT ![t] = "recheck"]
    /\ UNCHANGED <<BROWSER, egot, launches, late>>
    /\ UNCHANGED <<cvars, hvars, svars, fvars, jvars>>

\* if _BROWSER: return _BROWSER, under the lock; the return leaves the with
\* block, which releases the lock.
EnsureRecheck(t) ==
    /\ mode = "browser"
    /\ epc[t] = "recheck"
    /\ IF HasBrowserLocked(BROWSER)
       THEN /\ egot' = [egot EXCEPT ![t] = BROWSER]
            /\ INIT_LOCK' = 0
            /\ epc' = [epc EXCEPT ![t] = "done"]
            /\ late' = late \cup {t}
       ELSE /\ epc' = [epc EXCEPT ![t] = "launch"]
            /\ UNCHANGED <<INIT_LOCK, egot, late>>
    /\ UNCHANGED <<BROWSER, launches>>
    /\ UNCHANGED <<cvars, hvars, svars, fvars, jvars>>

\* _PW = sync_playwright().start(); _BROWSER = _PW.chromium.launch(...): a new
\* browser is launched and bound to the global, or the launch raises, which
\* leaves the with block and the function with _BROWSER as it was.
EnsureLaunch(t) ==
    /\ mode = "browser"
    /\ epc[t] = "launch"
    /\ \/ /\ launches' = launches + 1
          /\ BROWSER' = launches + 1
          /\ epc' = [epc EXCEPT ![t] = "release"]
          /\ UNCHANGED INIT_LOCK
       \/ /\ INIT_LOCK' = 0
          /\ epc' = [epc EXCEPT ![t] = "failed"]
          /\ UNCHANGED <<BROWSER, launches>>
    /\ UNCHANGED <<egot, late>>
    /\ UNCHANGED <<cvars, hvars, svars, fvars, jvars>>

\* The with block ends: the lock is released.
EnsureRelease(t) ==
    /\ mode = "browser"
    /\ epc[t] = "release"
    /\ INIT_LOCK' = 0
    /\ epc' = [epc EXCEPT ![t] = "return"]
    /\ UNCHANGED <<BROWSER, egot, launches, late>>
    /\ UNCHANGED <<cvars, hvars, svars, fvars, jvars>>

\* return _BROWSER, outside the lock.
EnsureReturn(t) ==
    /\ mode = "browser"
    /\ epc[t] = "return"
    /\ egot' = [egot EXCEPT ![t] = BROWSER]
    /\ epc' = [epc EXCEPT ![t] = "done"]
    /\ UNCHANGED <<BROWSER, INIT_LOCK, launches, late>>
    /\ UNCHANGED <<cvars, hvars, svars, fvars, jvars>>

\* The collector called directly.
NextCollect ==
    \/ IterBatch
    \/ InfoBatch
    \/ ThreadBatch

\* A request to the server.
NextServer ==
    \/ LeadsCall
    \/ VerifyStart
    \/ \E j \in ChunkIds : Acquire(j)
    \/ \E j \in ChunkIds : Attempt(j)
    \/ \E j \in ChunkIds : Release(j)
    \/ VerifyReturn
    \/ LeadsRespond
    \/ LeadsPlain
    \/ StreamStart

\* One page fetch, and the pool of page fetches.
NextPage ==
    \/ PageGoto
    \/ HtmlScan
    \/ WaitFinder
    \/ CardStep
    \/ CardsDone
    \/ FeedScan
    \/ BodyScan
    \/ ClickStep
    \/ ClickDone
    \/ PoolSubmit
    \/ \E t \in DOMAIN tphase : ThreadOpen(t)
    \/ \E t \in DOMAIN tphase : ThreadEnd(t)
    \/ PoolJoin
    \/ \E t \in DOMAIN epc : EnsureCall(t)
    \/ \E t \in DOMAIN epc : EnsureCheck(t)
    \/ \E t \in DOMAIN epc : EnsureLock(t)
    \/ \E t \in DOMAIN epc : EnsureRecheck(t)
    \/ \E t \in DOMAIN epc : EnsureLaunch(t)
    \/ \E t \in DOMAIN epc : EnsureRelease(t)
    \/ \E t \in DOMAIN epc : EnsureReturn(t)

Next ==
    \/ NextCollect
    \/ NextServer
    \/ NextPage

Spec == Init /\ [][Next]_vars

\* The sessions of one kind of entry point.
InitCollect == Init /\ mode \in {"iter", "info", "batch"}

SpecCollect == InitCollect /\ [][NextCollect]_vars

InitServer == Init /\ mode \in {"leads", "handler", "stream"}

SpecServer == InitServer /\ [][NextServer]_vars

InitPage == Init /\ mode \in {"page", "pool", "browser"}

SpecPage == InitPage /\ [][NextPage]_vars

\* ------------------------------------------------------------ collector claims
PagesFetched(c) == Len(fetchLog[c])

\* C1 (as claimed): over one session of iter_numbers / collect_numbers no number
\* is emitted more than once.
C1_GlobalDedup == mode = "iter" => NoDup(out)

\* C3 (as claimed): at every point of a session, any two localities that are not
\* exhausted have had numbers of pages fetched that differ by at most one.
C3_RoundRobinFair ==
    \A c1, c2 \in Range(local) :
        (PagesFetched(c1) < MAX_PAGES_CAP /\ PagesFetched(c2) < MAX_PAGES_CAP)
            => PagesFetched(c1) - PagesFetched(c2) <= 1

RECURSIVE SumLeft(_, _)
SumLeft(np, S) ==
    IF S = {} THEN 0
    ELSE LET c == CHOOSE x \in S : TRUE
         IN  (MAX_PAGES_CAP - np[c]) + SumLeft(np, S \ {c})

\* Pages the session may still fetch, plus one while it has not returned.
Variant ==
    (Len(local) - cityPos) * (MAX_PAGES_CAP + 1)
        + SumLeft(state.next_page, DOMAIN state.next_page)
        + (IF pc = "done" THEN 0 ELSE 1)

\* C5: a collection run terminates. Every step of iter_numbers,
\* collect_numbers_info or a state-threading caller strictly decreases a
\* natural-number measure, and the job-building loop of every collect_batch call
\* ends within MAX_WORKERS * len(cities) iterations, cities at the cap included.
C5_Terminates ==
    [][/\ ~diverged'
       /\ iters' <= MAX_WORKERS * Len(state.cities)
       /\ Variant' >= 0
       /\ Variant' < Variant]_cvars

C5_Witness ==
    /\ pc = "done"
    /\ Len(local) >= 2
    /\ iters > Len(lastJobs)

MarkedExhausted(c) ==
    \/ mode \in {"iter", "info"} /\ c < cityPos
    \/ c \in DOMAIN state.next_page /\ state.next_page[c] >= MAX_PAGES_CAP

CursorLog ==
    \A c \in DOMAIN state.next_page :
        fetchLog[c] = [i \in 1..state.next_page[c] |-> (i - 1) * 20]

\* C10: across collect_batch calls that thread the returned state, no cursor ever
\* decreases, a cursor advances by one page (offset stride 20) per page fetched
\* for its city, and no (city, offset) pair is fetched twice, whatever the page
\* fetches return.
C10_CursorMonotone ==
    /\ CursorLog
    /\ [][/\ CursorLog'
          /\ \A c \in (DOMAIN state.next_page) \cap (DOMAIN state'.next_page) :
                state'.next_page[c] >= state.next_page[c]]_cvars

C10_Witness ==
    /\ mode = "batch"
    /\ Len(local) >= 2
    /\ batchLen = 0
    /\ \E c \in DOMAIN state.next_page : state.next_page[c] >= 8

\* C6: the collector yields at most n numbers and a response never reports more
\* than n accepted numbers, whatever the batches and the verification returned.
C6_CappedAtTarget ==
    /\ mode = "iter" => (Len(out) <= limite /\ total = Len(out))
    /\ mode = "info" => Len(info_return(out, limite)) <= limite
    /\ status = 200 => /\ resp.count <= limite
                       /\ Len(resp.items) = resp.count
                       /\ resp.wa_count <= limite

C6_Witness ==
    /\ mode = "iter"
    /\ pc = "done"
    /\ Len(out) = limite
    /\ dropped > 0

\* No offset at or beyond the cap has been fetched.
BelowCap ==
    \A c \in CityIds : \A i \in 1..Len(fetchLog[c]) :
        fetchLog[c][i] < MAX_PAGES_CAP * PAGE_STRIDE

\* C18: no page with index MAX_PAGES_CAP or more is ever fetched; a collect_batch
\* call fetches nothing for a city that already has MAX_PAGES_CAP pages fetched;
\* and a call reports exhausted_all true exactly when, after it, every city of
\* the state it was given is at the cap.
C18_CapTerminal ==
    /\ BelowCap
    /\ [][/\ BelowCap'
          /\ \A c \in CityIds :
                PagesFetched(c) >= MAX_PAGES_CAP => fetchLog'[c] = fetchLog[c]
          /\ exhausted' <=> \A c \in Range(state.cities) :
                                Len(fetchLog'[c]) >= MAX_PAGES_CAP]_cvars

C18_Witness ==
    /\ mode = "batch"
    /\ Len(local) = 3
    /\ exhausted
    /\ lastJobs # <<>>

\* The sessions open on the one browser of the process.
Sessions == {t \in DOMAIN tphase : tphase[t] = "session"}

\* C14 (as claimed): at most one rendering session is active on the shared
\* browser at any time during a collect_batch call.
C14_OneSession == Cardinality(Sessions) <= 1

\* C16: whatever the page holds and whichever strategies run, the list of one
\* page fetch never holds a number twice, and `seen` is exactly what it holds.
C16_PageLocalDedup ==
    /\ NoDup(pout)
    /\ pseen = Range(pout)

C16_Witness ==
    /\ pstage = "returned"
    /\ prej
    /\ Len(pout) = NumPhones
    /\ clicks >= 1

LimitKept ==
    /\ Len(pout) <= limite
    /\ clicks <= MAX_CLICKS_PER_PAGE

\* C17: for a limit of at least 1 a page fetch never holds more than `limite`
\* numbers and never clicks more than MAX_CLICKS_PER_PAGE cards; once it holds
\* `limite` numbers its only step is to return them: no strategy runs and no
\* card is clicked.
C17_StopsAtLimit ==
    /\ LimitKept
    /\ [][/\ LimitKept'
          /\ (mode = "page" /\ Len(pout) >= limite)
                => /\ pstage' = "returned"
                   /\ pout' = pout
                   /\ clicks' = clicks]_pvars

C17_Witness ==
    /\ pstage = "returned"
    /\ Len(pout) = limite
    /\ pcard < ncards
    /\ clicks = 0

\* ------------------------------------------------------------ server claims
\* C2 (as claimed): every number of the candidate list handed to
\* verify_whatsapp is evaluated by the remote service at most once, retries
\* not counted.
C2_EvaluatedOnce == \A x \in Numbers : evalCount[x] <= 1

\* Whether, when the request ended, every locality had been fetched to the cap.
RunExhausted ==
    IF mode = "handler" THEN exh_in
    ELSE \A c \in Range(local) : PagesFetched(c) >= MAX_PAGES_CAP

\* C4 (as claimed): a request with verification never ends with fewer than n
\* confirmed numbers while some locality still has unfetched pages.
C4_KeepsCollecting ==
    (mode \in {"leads", "handler"} /\ verify = 1 /\ hpc = "done")
        => \/ status = 200 /\ resp.wa_count >= limite
           \/ RunExhausted

\* Chunk j gave up: every one of its UAZAPI_RETRIES + 1 attempts failed.
FailedChunk(j) == j \in DOMAIN cattempt /\ cattempt[j] > UAZAPI_RETRIES

SucceededChunk(j) ==
    j \in DOMAIN cattempt /\ cphase[j] \in {"throttle", "done"} /\ ~FailedChunk(j)

\* The chunk that carries candidates[i].
ChunkOf(i) == ((i - 1) \div UAZAPI_BATCH_SIZE) + 1

\* C7 (as claimed): when a chunk failed on every attempt and another chunk
\* succeeded, the pass completes with exactly the numbers the remote confirmed
\* in the chunks that succeeded.
C7_ChunkFailureIsolated ==
    (/\ hpc \in {"respond", "done"}
     /\ \E j \in DOMAIN cattempt : FailedChunk(j)
     /\ \E j \in DOMAIN cattempt : SucceededChunk(j))
        => wa_all = remoteOk

\* C8 (as claimed): the rejected counter of a response never includes a number
\* whose chunk failed on every attempt: it counts at most the candidates of the
\* other chunks.
C8_UnknownNotRejected ==
    (status = 200 /\ verify = 1)
        => resp.non_wa_count
              <= Cardinality({i \in 1..Len(candidates) : ~FailedChunk(ChunkOf(i))})

\* The request is over.
RequestEnded == mode \in {"leads", "stream"} /\ hpc \in {"done", "aborted"}

\* The request ended with its result: the 200 body of /leads, the done event of
\* /leads/stream.
EndedWithResult ==
    IF mode = "leads" THEN status = 200
    ELSE \E i \in 1..Len(events) : events[i] = "done"

\* The collector was entered: a collection that failed is one that ran.
CollectorEntered == pc # "idle"

\* C11 (as claimed): a request ends without its result only when the collection
\* itself failed; a request whose collector had no failing page fetch ends with
\* the result.
C11_ErrorOnlyOnFatal ==
    (RequestEnded /\ ~EndedWithResult) => CollectorEntered

\* The verification pass dispatched chunks and has returned.
PassReturned == hpc \in {"respond", "done"} /\ cattempt # <<>>

\* C12 (as claimed): after a verification pass the failure count is the number
\* of chunks that failed on every attempt, the success count is the number of
\* chunks that succeeded, and the two add up to the number of chunks.
C12_MetricsCountChunks ==
    PassReturned =>
        /\ meta_all.fail = Cardinality({j \in DOMAIN cattempt : FailedChunk(j)})
        /\ meta_all.ok = Cardinality({j \in DOMAIN cattempt : SucceededChunk(j)})
        /\ meta_all.ok + meta_all.fail = meta_all.batches

\* C13 (as claimed): when every remote call of every chunk failed, the pass
\* returns an empty confirmed set.
C13_TotalFailureEmpty ==
    (PassReturned /\ \A j \in DOMAIN cattempt : FailedChunk(j)) => wa_all = {}

\* What the handler would accept from the chunks merged so far.
Accepted == Filter(candidates, wa_all)

C19_RetryBound ==
    \A j \in DOMAIN posts :
        /\ posts[j] <= UAZAPI_RETRIES + 1
        /\ cphase[j] \in {"throttle", "done"} => posts[j] >= 1
        /\ posts[j] - cattempt[j] \in {0, 1}
        /\ posts[j] > cattempt[j] => cphase[j] \in {"throttle", "done"}

C19_Witness ==
    \E j \in DOMAIN posts :
        /\ posts[j] = UAZAPI_RETRIES + 1
        /\ cattempt[j] = UAZAPI_RETRIES
        /\ cphase[j] = "done"

\* C20: while verify_whatsapp runs, the chunks that hold the semaphore (a call
\* in flight, a backoff sleep or the throttle sleep) are never more than
\* max(1, UAZAPI_MAX_CONCURRENCY).
C20_BoundedFanOut ==
    hpc = "gather" => Cardinality(Holding) <= Max(1, max_concurrency)

C20_Witness ==
    /\ hpc = "gather"
    /\ Len(Chunks) > Max(1, max_concurrency)
    /\ Cardinality(Holding) = Max(1, max_concurrency)
    /\ \E j \in ChunkIds : cphase[j] = "wait" /\ posts[1] >= 2

\* ------------------------------------------------------------ the pool's claims
\* The cursor of the job's city, as the call hands it back, is past the job's page.
CursorPast(t) == state.next_page[lastJobs[t][1]] > lastJobs[t][2]

\* C21: when page fetches of a collect_batch call time out or raise, the call
\* still returns: what it returns is what the fetches that did return handed
\* back, in completion order and up to the limit, and the cursor it hands back
\* is past the page of every job, the failed ones included.
C21_FailureAbsorbed ==
    (mode = "pool" /\ pstage = "joined") =>
        /\ presults = found
        /\ batchLen = Len(found)
        /\ \A t \in tfailed : CursorPast(t)

\* A call has returned numbers although one of its fetches failed.
C21_Witness ==
    /\ mode = "pool"
    /\ pstage = "joined"
    /\ tfailed # {}
    /\ found # <<>>
    /\ \E t \in tfailed : CursorPast(t)

\* C22: whatever the number of threads in _ensure_browser and however their
\* steps interleave, at most one browser is launched in the process, and every
\* call that returns hands back that one browser.
C22_BrowserSingleton ==
    mode = "browser" =>
        /\ launches <= 1
        /\ \A t \in DOMAIN epc : epc[t] = "done" => egot[t] = 1

\* Two threads went past the unlocked test while there was no browser: one
\* launched it, the other found it under the lock, and both hold it.
C22_Witness ==
    /\ mode = "browser"
    /\ launches = 1
    /\ \E t1, t2 \in DOMAIN epc :
          /\ t1 # t2
          /\ t2 \in late
          /\ t1 \notin late
          /\ epc[t1] = "done" /\ egot[t1] = 1
          /\ epc[t2] = "done" /\ egot[t2] = 1

\* C23 (as claimed): a page fetch that has ended, by returning or by raising,
\* has closed the browser context it opened.
C23_ContextClosed ==
    (mode = "page" /\ pstage \in {"returned", "raised"}) => ctx = "closed"

\* ------------------------------------------------------------ the stream's claims
\* The item events the caller received before the event at position i.
ItemsBefore(i) == Cardinality({j \in 1..(i - 1) : events[j] = "item"})

\* C24 (as claimed): a streamed run with verification that has ended has
\* delivered a done event, and the number of item events the caller received
\* before it is the count that the done event reports.
C24_ItemsMatchDone ==
    (mode = "stream" /\ verify = 1 /\ hpc \in {"done", "aborted"}) =>
        \E i \in 1..Len(events) :
            /\ events[i] = "done"
            /\ ItemsBefore(i) = resp.wa_count

=============================================================================
